---- MODULE Spec2Model ----
(***************************************************************************)
(* Statement & chunk store of the Worlds API.                              *)
(*                                                                         *)
(* The store is the SQLite schema of src/sqlite/usage.ts (kb_statements    *)
(* with its unique constraint and blank-node cascade trigger, kb_chunks    *)
(* with its foreign key, the kb_chunks_fts index and its three sync        *)
(* triggers) driven by the SqliteSearchStore class of                      *)
(* src/paper/src/search-store/sqlite-search-store.test.ts and by the       *)
(* atomic ingestion pattern of src/unnamed/part_001.                       *)
(***************************************************************************)
EXTENDS Integers, Sequences, FiniteSets, TLC

VARIABLES
    kb_statements,      \* set of statement rows
    seq_statements,     \* sqlite_sequence entry of kb_statements (AUTOINCREMENT)
    kb_chunks,          \* set of chunk rows
    seq_chunks,         \* sqlite_sequence entry of kb_chunks
    kb_chunks_fts,      \* full-text index: set of [rowid, content] entries
    kb_terms,           \* term dictionary written by the ingestion pattern
    txn,                \* the interactive write transaction: position, arguments
    journal,            \* rollback journal: the database when the scope opened
    scope_start,        \* history: the database when the last scope opened
    edge_cache,         \* per world: the cached in-memory graph, or cold
    pc,                 \* position of a DELETE statement executed row by row
    frames,             \* stack of trigger frames: pending rowids of each DELETE
    last                \* history: the last operation and what it did

vars == <<kb_statements, seq_statements, kb_chunks, seq_chunks, kb_chunks_fts,
          kb_terms, txn, journal, scope_start, edge_cache, pc, frames, last>>

(***************************************************************************)
(* Bounds of the model.                                                    *)
(***************************************************************************)
MaxStatementId == 3
MaxBatch == 2
MaxChunkId == 2
MaxRanked == 3

(***************************************************************************)
(* RDF terms as the data factory builds them.                              *)
(***************************************************************************)
XSD_STRING == "xsd:string"
RDF_LANGSTRING == "rdf:langString"
XSD_INTEGER == "xsd:integer"

NamedNode(v) ==
    [termType |-> "NamedNode", value |-> v, language |-> "", datatype |-> ""]

BlankNode(v) ==
    [termType |-> "BlankNode", value |-> v, language |-> "", datatype |-> ""]

DefaultGraph ==
    [termType |-> "DefaultGraph", value |-> "", language |-> "", datatype |-> ""]

\* df.literal(value, languageOrDatatype) with a language string
LangLiteral(v, lang) ==
    [termType |-> "Literal", value |-> v, language |-> lang,
     datatype |-> RDF_LANGSTRING]

\* df.literal(value, languageOrDatatype) with a datatype named node
TypedLiteral(v, dt) ==
    [termType |-> "Literal", value |-> v, language |-> "", datatype |-> dt]

\* df.literal(value): a simple literal carries xsd:string
PlainLiteral(v) == TypedLiteral(v, XSD_STRING)

Quad(s, p, o, g) == [subject |-> s, predicate |-> p, object |-> o, graph |-> g]

(***************************************************************************)
(* String helpers (String.prototype.startsWith / slice, SQL LIKE 'p%').    *)
(***************************************************************************)
startsWith(s, p) == Len(s) >= Len(p) /\ SubSeq(s, 1, Len(p)) = p

slice(s, n) == SubSeq(s, n + 1, Len(s))

\* LIKE 'prefix%'; every value of the model is lower case, so SQLite's
\* ASCII case folding does not show.
LikePrefix(s, p) == startsWith(s, p)

(***************************************************************************)
(* parseInt of a decimal id string, as removeStatement and getStatement    *)
(* use it: leading white space and one sign are skipped, the longest run   *)
(* of digits is read, and the result is NaN when no digit was read.        *)
(***************************************************************************)
DigitChars == <<"0", "1", "2", "3", "4", "5", "6", "7", "8", "9">>

IsDigit(c) == \E d \in 1..Len(DigitChars) : DigitChars[d] = c

DigitVal(c) == (CHOOSE d \in 1..Len(DigitChars) : DigitChars[d] = c) - 1

CharAt(s, i) == SubSeq(s, i, i)

RECURSIVE SkipSpace(_, _)
SkipSpace(s, i) ==
    IF i <= Len(s) /\ CharAt(s, i) = " " THEN SkipSpace(s, i + 1) ELSE i

RECURSIVE ReadDigits(_, _, _, _)
ReadDigits(s, i, acc, seen) ==
    IF i <= Len(s) /\ IsDigit(CharAt(s, i))
    THEN ReadDigits(s, i + 1, acc * 10 + DigitVal(CharAt(s, i)), TRUE)
    ELSE [nan |-> ~seen, val |-> acc]

parseInt(s) ==
    LET i == SkipSpace(s, 1)
        neg == i <= Len(s) /\ CharAt(s, i) = "-"
        pos == i <= Len(s) /\ CharAt(s, i) = "+"
        j == IF neg \/ pos THEN i + 1 ELSE i
        r == ReadDigits(s, j, 0, FALSE)
    IN  [nan |-> r.nan, val |-> IF neg THEN 0 - r.val ELSE r.val]

\* Number.prototype.toString() of a small non-negative integer
RECURSIVE toString(_)
toString(n) ==
    IF n < 10 THEN DigitChars[n + 1]
    ELSE toString(n \div 10) \o DigitChars[(n % 10) + 1]

(***************************************************************************)
(* Term codec: the values mapping of addStatements and the row decoding of *)
(* getStatements / getStatement.                                           *)
(***************************************************************************)
encode(quad) ==
    [subject |-> quad.subject.value,
     predicate |-> quad.predicate.value,
     object |-> quad.object.value,
     graph |-> quad.graph.value,
     term_type |-> quad.object.termType,
     object_language |->
        IF quad.object.termType = "Literal" THEN quad.object.language ELSE "",
     object_datatype |->
        IF quad.object.termType = "Literal" THEN quad.object.datatype ELSE ""]

\* this.df.literal(row.object, row.objectLanguage || namedNode(row.objectDatatype))
decodeLiteral(row) ==
    IF row.object_language # ""
    THEN LangLiteral(row.object, row.object_language)
    ELSE TypedLiteral(row.object, row.object_datatype)

\* row decoding of getStatements
decode(row) ==
    Quad(NamedNode(row.subject),
         NamedNode(row.predicate),
         IF row.term_type = "Literal" THEN decodeLiteral(row)
         ELSE IF row.term_type = "BlankNode"
              THEN IF startsWith(row.object, "_:")
                   THEN BlankNode(slice(row.object, 2))
                   ELSE NamedNode(row.object)
              ELSE NamedNode(row.object),
         NamedNode(row.graph))

\* row decoding of getStatement: no BlankNode branch
decodeOne(row) ==
    Quad(NamedNode(row.subject),
         NamedNode(row.predicate),
         IF row.term_type = "Literal" THEN decodeLiteral(row)
         ELSE NamedNode(row.object),
         NamedNode(row.graph))

(***************************************************************************)
(* kb_statements: rows, the unique constraint, AUTOINCREMENT.              *)
(***************************************************************************)
StatementRow(id, v) ==
    [statement_id |-> id, subject |-> v.subject, predicate |-> v.predicate,
     object |-> v.object, graph |-> v.graph, term_type |-> v.term_type,
     object_language |-> v.object_language,
     object_datatype |-> v.object_datatype]

\* the columns of CONSTRAINT kb_statement_unique
kb_statement_unique(r) ==
    <<r.subject, r.predicate, r.object, r.graph, r.term_type,
      r.object_language, r.object_datatype>>

\* a table created without the unique constraint never conflicts
noUniqueConstraint(tbl, v) == FALSE

\* ON CONFLICT DO NOTHING: does inserting v conflict with a row of tbl?
onConflict(tbl, v) ==
    \E r \in tbl : kb_statement_unique(r) = kb_statement_unique(v)

\* a batch insert that filters its values against the rows stored before the
\* statement only, so that a value repeated inside the batch is stored twice
RECURSIVE insertUnchecked(_, _, _)
insertUnchecked(tbl, seq, values) ==
    IF values = <<>> THEN [rows |-> tbl, seq |-> seq]
    ELSE insertUnchecked(tbl \cup {StatementRow(seq + 1, Head(values))},
                         seq + 1, Tail(values))

insertValuesPrefiltered(tbl, seq, values) ==
    insertUnchecked(tbl, seq,
        SelectSeq(values, LAMBDA v : ~onConflict(tbl, v)))

\* INTEGER PRIMARY KEY without AUTOINCREMENT: one more than the largest
\* rowid now in the table
rowidAfterLargest(tbl, seq) ==
    IF tbl = {} THEN 1
    ELSE 1 + (CHOOSE i \in {r.statement_id : r \in tbl} :
                 \A r \in tbl : r.statement_id <= i)

\* INTEGER PRIMARY KEY AUTOINCREMENT: one more than the largest rowid the
\* table ever held, which sqlite_sequence (seq) remembers
AUTOINCREMENT(tbl, seq) == seq + 1

\* INSERT INTO kb_statements VALUES (...), (...) ON CONFLICT DO NOTHING.
\* Every value draws a rowid from the AUTOINCREMENT sequence before the
\* constraint is checked; a conflicting value is skipped.
RECURSIVE insertValues(_, _, _)
insertValues(tbl, seq, values) ==
    IF values = <<>> THEN [rows |-> tbl, seq |-> seq]
    ELSE LET v == Head(values)
             id == AUTOINCREMENT(tbl, seq)
         IN  IF onConflict(tbl, v)
             THEN insertValues(tbl, id, Tail(values))
             ELSE insertValues(tbl \cup {StatementRow(id, v)}, id, Tail(values))

(***************************************************************************)
(* kb_chunks, its foreign key and the triggers that keep kb_chunks_fts in  *)
(* step.  A database value is a record of the three tables a DELETE on     *)
(* kb_statements can touch.                                                *)
(***************************************************************************)
NULL == 0

ChunkRow(id, sid, content) ==
    [chunk_id |-> id, statement_id |-> sid, content |-> content]

FtsEntry(rowid, content) == [rowid |-> rowid, content |-> content]

\* kb_chunks_ai: INSERT INTO kb_chunks_fts(rowid, content)
kb_chunks_ai(fts, new) == fts \cup {FtsEntry(new.chunk_id, new.content)}

\* kb_chunks_ad: INSERT INTO kb_chunks_fts(kb_chunks_fts, rowid, content)
\*               VALUES ('delete', old.chunk_id, old.content)
kb_chunks_ad(fts, old) == fts \ {FtsEntry(old.chunk_id, old.content)}

\* an update trigger that only inserts the new entry
kb_chunks_au_insert_only(fts, old, new) ==
    fts \cup {FtsEntry(new.chunk_id, new.content)}

\* kb_chunks_au: the 'delete' of the old entry, then the insert of the new
kb_chunks_au(fts, old, new) ==
    (fts \ {FtsEntry(old.chunk_id, old.content)})
        \cup {FtsEntry(new.chunk_id, new.content)}

\* FOREIGN KEY(statement_id) REFERENCES kb_statements(statement_id):
\* a chunk may reference NULL or an existing statement
foreignKeyHolds(st, sid) ==
    sid = NULL \/ \E r \in st : r.statement_id = sid

Database(st, ch, fts) == [st |-> st, ch |-> ch, fts |-> fts]

\* DELETE of chunk rows, one row at a time, each firing kb_chunks_ad
RECURSIVE deleteChunks(_, _)
deleteChunks(db, rows) ==
    IF rows = {} THEN db
    ELSE LET old == CHOOSE c \in rows :
                        \A d \in rows : c.chunk_id <= d.chunk_id
         IN  deleteChunks(
                 [db EXCEPT !.ch = @ \ {old}, !.fts = kb_chunks_ad(@, old)],
                 rows \ {old})

\* a foreign key that is declared but not enforced (PRAGMA foreign_keys off)
onDeleteNoAction(db, old) == db

\* chunk rows removed under the index, without their delete trigger
onDeleteCascadeUnindexed(db, old) ==
    [db EXCEPT !.ch = {c \in @ : c.statement_id # old.statement_id}]

\* ON DELETE CASCADE: the chunks of a deleted statement go with it
onDeleteCascade(db, old) ==
    deleteChunks(db, {c \in db.ch : c.statement_id = old.statement_id})

(***************************************************************************)
(* DELETE FROM kb_statements and the trigger kb_statements_ad_bn.          *)
(***************************************************************************)
\* a connection left at SQLite's default, recursive_triggers = OFF
recursive_triggers_off == FALSE

\* PRAGMA recursive_triggers = ON, which the schema requires of the
\* connection
recursive_triggers == TRUE

\* WHEN old.term_type = 'BlankNode' OR OLD.object LIKE 'urn:uuid:%'
\*      OR OLD.object LIKE '.well-known/genid/%'
kb_statements_ad_bn_when(old) ==
    \/ old.term_type = "BlankNode"
    \/ LikePrefix(old.object, "urn:uuid:")
    \/ LikePrefix(old.object, ".well-known/genid/")

\* DELETE FROM kb_statements WHERE subject = old.object: the rowids it matches
kb_statements_ad_bn_rows(st, old) ==
    {r.statement_id : r \in {x \in st : x.subject = old.object}}

\* A DELETE statement over the rowids `pending`, in rowid order.  A rowid
\* whose row an inner trigger already deleted is skipped.  After each row
\* the foreign key action and the AFTER DELETE trigger run; the trigger's
\* own DELETE runs to completion (depth + 1) before the next row.
RECURSIVE deleteRows(_, _, _)
deleteRows(db, pending, depth) ==
    IF pending = {} THEN db
    ELSE LET id == CHOOSE i \in pending : \A j \in pending : i <= j
             rest == pending \ {id}
             hit == {r \in db.st : r.statement_id = id}
         IN  IF hit = {} THEN deleteRows(db, rest, depth)
             ELSE LET old == CHOOSE r \in hit : TRUE
                      db1 == onDeleteCascade([db EXCEPT !.st = @ \ {old}], old)
                      fires == /\ kb_statements_ad_bn_when(old)
                               /\ (depth = 0 \/ recursive_triggers)
                      db2 == IF fires
                             THEN deleteRows(db1,
                                      kb_statements_ad_bn_rows(db1.st, old),
                                      depth + 1)
                             ELSE db1
                  IN  deleteRows(db2, rest, depth)

Db == Database(kb_statements, kb_chunks, kb_chunks_fts)

(***************************************************************************)
(* Reads of SqliteSearchStore.                                             *)
(***************************************************************************)
Range(seq) == {seq[i] : i \in 1..Len(seq)}

\* the index scanned backwards: highest rowid first
RECURSIVE rowsByIdDescending(_)
rowsByIdDescending(rows) ==
    IF rows = {} THEN <<>>
    ELSE LET first == CHOOSE r \in rows :
                          \A x \in rows : r.statement_id >= x.statement_id
         IN  <<first>> \o rowsByIdDescending(rows \ {first})

\* rows in rowid order: the query has no ORDER BY; the scan of kb_g_index
\* for one graph yields that graph's rows by ascending rowid
RECURSIVE rowsById(_)
rowsById(rows) ==
    IF rows = {} THEN <<>>
    ELSE LET first == CHOOSE r \in rows :
                          \A x \in rows : r.statement_id <= x.statement_id
         IN  <<first>> \o rowsById(rows \ {first})

selectByGraph(st, graphId) == rowsById({r \in st : r.graph = graphId})

getStatementsOf(st, graphId) ==
    LET rows == selectByGraph(st, graphId)
    IN  [i \in 1..Len(rows) |-> decode(rows[i])]

getStatements(graphId) == getStatementsOf(kb_statements, graphId)

\* <<>> stands for null
getStatementOf(st, statementId) ==
    LET id == parseInt(statementId)
        rows == {r \in st : r.statement_id = id.val}
    IN  IF id.nan THEN <<>>
        ELSE IF rows = {} THEN <<>>
        ELSE <<decodeOne(CHOOSE r \in rows : TRUE)>>

getStatement(statementId) == getStatementOf(kb_statements, statementId)

(***************************************************************************)
(* State after construction: the schema is created, every table is empty.  *)
(***************************************************************************)
EmptyDatabase == Database({}, {}, {})

\* no write scope is open
NoTransaction ==
    [at |-> "idle",
     statement |-> Quad(NamedNode(""), NamedNode(""), NamedNode(""),
                        NamedNode("")),
     content |-> ""]

\* the worlds whose graphs the query engine caches
Worlds == {"g1", "g2"}

\* a world's cache entry before hydration and after invalidation
Cold == <<>>

Init ==
    /\ kb_statements = {}
    /\ seq_statements = 0
    /\ kb_chunks = {}
    /\ seq_chunks = 0
    /\ kb_chunks_fts = {}
    /\ kb_terms = {}
    /\ txn = NoTransaction
    /\ journal = [db |-> EmptyDatabase, seq_statements |-> 0, seq_chunks |-> 0,
                  terms |-> {}]
    /\ scope_start = [db |-> EmptyDatabase, seq_statements |-> 0,
                      seq_chunks |-> 0, terms |-> {}]
    /\ edge_cache = [w \in Worlds |-> Cold]
    /\ pc = "idle"
    /\ frames = <<>>
    /\ last = [op |-> "none", m |-> 0, n |-> 0, c |-> 0]

\* last: op is the operation, m the rows or values it was given (for
\* updateChunk: 1 when the content changed), n the statement or chunk rows
\* it inserted, updated or deleted, c the chunk rows a statement DELETE
\* removed

\* no write scope and no row-by-row DELETE is in flight
Quiescent == txn.at = "idle" /\ pc = "idle"

(***************************************************************************)
(* Writes of SqliteSearchStore.  Each is one auto-committed SQL statement. *)
(***************************************************************************)
\* the table and the sequence after addStatements(statements)
addStatementsEffect(st, seq, statements) ==
    IF Len(statements) = 0 THEN [rows |-> st, seq |-> seq]
    ELSE insertValues(st, seq,
             [i \in 1..Len(statements) |-> encode(statements[i])])

AddStatements(statements) ==
    /\ Quiescent
    /\ seq_statements + Len(statements) <= MaxStatementId
    /\ LET res == addStatementsEffect(kb_statements, seq_statements, statements)
       IN  /\ kb_statements' = res.rows
           /\ seq_statements' = res.seq
    /\ last' = [op |-> "addStatements", m |-> Len(statements),
                n |-> Cardinality(kb_statements') - Cardinality(kb_statements),
                c |-> 0]
    /\ UNCHANGED <<kb_chunks, seq_chunks, kb_chunks_fts, kb_terms, txn,
                   journal, scope_start, edge_cache, pc, frames>>

AddStatement(statement) == AddStatements(<<statement>>)

\* the effect of one DELETE FROM kb_statements over the matched rowids
Delete(op, matched) ==
    LET db == deleteRows(Db, matched, 0)
    IN  /\ kb_statements' = db.st
        /\ kb_chunks' = db.ch
        /\ kb_chunks_fts' = db.fts
        /\ last' = [op |-> op, m |-> Cardinality(matched),
                    n |-> Cardinality(kb_statements) - Cardinality(db.st),
                    c |-> Cardinality(kb_chunks) - Cardinality(db.ch)]
        /\ UNCHANGED <<seq_statements, seq_chunks, kb_terms, txn, journal,
                       scope_start, edge_cache, pc, frames>>

\* the same DELETE filtering on the wrong column
RemoveStatementsBySubject(graphId) ==
    /\ Quiescent
    /\ Delete("removeStatements",
              {r.statement_id :
                  r \in {x \in kb_statements : x.subject = graphId}})

RemoveStatements(graphId) ==
    /\ Quiescent
    /\ Delete("removeStatements",
              {r.statement_id : r \in {x \in kb_statements : x.graph = graphId}})

RemoveStatement(statementId) ==
    /\ Quiescent
    /\ LET id == parseInt(statementId)
       IN  IF id.nan
           THEN /\ last' = [op |-> "removeStatement", m |-> 0, n |-> 0,
                            c |-> 0]
                /\ UNCHANGED <<kb_statements, seq_statements, kb_chunks,
                               seq_chunks, kb_chunks_fts, kb_terms, txn,
                               journal, scope_start, edge_cache, pc, frames>>
           ELSE Delete("removeStatement",
                    {r.statement_id :
                        r \in {x \in kb_statements : x.statement_id = id.val}})

(***************************************************************************)
(* Inputs of the statement model.                                          *)
(***************************************************************************)
\* The first world holds chains and cycles of two blank nodes; the second
\* world holds a smaller vocabulary whose text collides with the first's.
Subjects == {NamedNode("a"), BlankNode("b1"), BlankNode("b2")}
Predicates == {NamedNode("p")}
Objects == {BlankNode("b1"), BlankNode("b2"), PlainLiteral("leaf")}
OtherSubjects == {NamedNode("a"), BlankNode("b1")}
OtherObjects == {BlankNode("b1"), PlainLiteral("leaf")}
Graphs == {NamedNode("g1"), NamedNode("g2")}

Quads ==
    {Quad(s, p, o, NamedNode("g1")) :
        s \in Subjects, p \in Predicates, o \in Objects}
    \cup {Quad(s, p, o, NamedNode("g2")) :
        s \in OtherSubjects, p \in Predicates, o \in OtherObjects}

GraphIds == {g.value : g \in Graphs}

IdStrings ==
    {toString(i) : i \in 1..MaxStatementId}
        \cup {"", "abc", "1abc", " 2", "-1"}

Next ==
    \/ \E n \in 0..MaxBatch :
          /\ seq_statements + n <= MaxStatementId
          /\ \E statements \in [1..n -> Quads] : AddStatements(statements)
    \/ \E statement \in Quads : AddStatement(statement)
    \/ \E graphId \in GraphIds : RemoveStatements(graphId)
    \/ \E statementId \in IdStrings : RemoveStatement(statementId)

Spec == Init /\ [][Next]_vars

(***************************************************************************)
(* Writes to kb_chunks: single auto-committed statements against the       *)
(* schema.  A statement that violates the foreign key fails and changes    *)
(* nothing.                                                                *)
(***************************************************************************)
InsertChunk(statementId, content) ==
    /\ Quiescent
    /\ IF foreignKeyHolds(kb_statements, statementId)
       THEN LET new == ChunkRow(seq_chunks + 1, statementId, content)
            IN  /\ kb_chunks' = kb_chunks \cup {new}
                /\ seq_chunks' = seq_chunks + 1
                /\ kb_chunks_fts' = kb_chunks_ai(kb_chunks_fts, new)
                /\ last' = [op |-> "insertChunk", m |-> 1, n |-> 1, c |-> 0]
       ELSE /\ last' = [op |-> "insertChunk", m |-> 1, n |-> 0, c |-> 0]
            /\ UNCHANGED <<kb_chunks, seq_chunks, kb_chunks_fts>>
    /\ UNCHANGED <<kb_statements, seq_statements, kb_terms, txn, journal,
                   scope_start, edge_cache, pc, frames>>

\* UPDATE kb_chunks SET statement_id = ?, content = ? WHERE chunk_id = ?
UpdateChunk(chunkId, statementId, content) ==
    /\ Quiescent
    /\ LET hit == {c \in kb_chunks : c.chunk_id = chunkId}
       IN  IF hit # {} /\ foreignKeyHolds(kb_statements, statementId)
           THEN LET old == CHOOSE c \in hit : TRUE
                    new == ChunkRow(chunkId, statementId, content)
                IN  /\ kb_chunks' = (kb_chunks \ {old}) \cup {new}
                    /\ kb_chunks_fts' = kb_chunks_au(kb_chunks_fts, old, new)
                    /\ last' = [op |-> "updateChunk",
                                m |-> IF old.content # content THEN 1 ELSE 0,
                                n |-> 1, c |-> 0]
           ELSE /\ last' = [op |-> "updateChunk", m |-> 0, n |-> 0, c |-> 0]
                /\ UNCHANGED <<kb_chunks, kb_chunks_fts>>
    /\ UNCHANGED <<kb_statements, seq_statements, seq_chunks, kb_terms, txn,
                   journal, scope_start, edge_cache, pc, frames>>

\* DELETE FROM kb_chunks WHERE chunk_id = ?
DeleteChunk(chunkId) ==
    /\ Quiescent
    /\ LET hit == {c \in kb_chunks : c.chunk_id = chunkId}
           db == deleteChunks(Db, hit)
       IN  /\ kb_chunks' = db.ch
           /\ kb_chunks_fts' = db.fts
           /\ last' = [op |-> "deleteChunk", m |-> 1,
                       n |-> Cardinality(hit), c |-> 0]
    /\ UNCHANGED <<kb_statements, seq_statements, seq_chunks, kb_terms, txn,
                   journal, scope_start, edge_cache, pc, frames>>

\* one document ingested as a batch: a chain of three statements through
\* two blank nodes
Chain ==
    <<Quad(NamedNode("a"), NamedNode("p"), BlankNode("b1"), NamedNode("g1")),
      Quad(BlankNode("b1"), NamedNode("p"), BlankNode("b2"), NamedNode("g1")),
      Quad(BlankNode("b2"), NamedNode("p"), PlainLiteral("leaf"),
           NamedNode("g1"))>>

\* a statement of another world
Other ==
    Quad(NamedNode("a"), NamedNode("p"), PlainLiteral("leaf"), NamedNode("g2"))

Contents == {"t1", "t2"}

StatementRefs == {NULL} \cup 1..MaxStatementId

ChunkNext ==
    \/ AddStatements(Chain)
    \/ AddStatement(Other)
    \/ \E graphId \in GraphIds : RemoveStatements(graphId)
    \/ \E id \in 1..MaxStatementId : RemoveStatement(toString(id))
    \/ \E sid \in StatementRefs : \E content \in Contents :
          /\ seq_chunks < MaxChunkId
          /\ InsertChunk(sid, content)
    \/ \E cid \in 1..MaxChunkId : \E sid \in StatementRefs :
          \E content \in Contents : UpdateChunk(cid, sid, content)
    \/ \E cid \in 1..MaxChunkId : DeleteChunk(cid)

ChunkSpec == Init /\ [][ChunkNext]_vars

(***************************************************************************)
(* The same DELETE executed row by row, one trigger frame per running      *)
(* DELETE statement: the outer statement at the bottom of the stack, the   *)
(* DELETE of each active kb_statements_ad_bn program above it.             *)
(***************************************************************************)
Snapshot ==
    [db |-> Db, seq_statements |-> seq_statements, seq_chunks |-> seq_chunks,
     terms |-> kb_terms]

\* a DELETE that never moves past a rowid whose row is already gone
retryDeletedRow(below, top, id) == Append(below, top)

\* the rowid of a row that an inner trigger already deleted is skipped
skipDeletedRow(below, top, id) == Append(below, top \ {id})

\* one step of the statement: an exhausted DELETE returns to its caller,
\* otherwise the next pending rowid is processed
deleteStep(db, stack) ==
    LET top == stack[Len(stack)]
        below == SubSeq(stack, 1, Len(stack) - 1)
    IN  IF top = {} THEN [db |-> db, frames |-> below]
        ELSE LET id == CHOOSE i \in top : \A j \in top : i <= j
                 hit == {r \in db.st : r.statement_id = id}
             IN  IF hit = {}
                 THEN [db |-> db, frames |-> skipDeletedRow(below, top, id)]
                 ELSE LET old == CHOOSE r \in hit : TRUE
                          db1 == onDeleteCascade(
                                     [db EXCEPT !.st = @ \ {old}], old)
                          fires == /\ kb_statements_ad_bn_when(old)
                                   /\ (Len(stack) = 1 \/ recursive_triggers)
                          rest == Append(below, top \ {id})
                      IN  [db |-> db1,
                           frames |->
                              IF fires
                              THEN Append(rest,
                                       kb_statements_ad_bn_rows(db1.st, old))
                              ELSE rest]

BeginDelete(op, matched) ==
    /\ Quiescent
    /\ pc' = "deleting"
    /\ frames' = <<matched>>
    /\ journal' = Snapshot
    /\ last' = [op |-> op, m |-> Cardinality(matched), n |-> 0, c |-> 0]
    /\ UNCHANGED <<kb_statements, seq_statements, kb_chunks, seq_chunks,
                   kb_chunks_fts, kb_terms, txn, scope_start, edge_cache>>

BeginRemoveStatements(graphId) ==
    BeginDelete("removeStatements",
        {r.statement_id : r \in {x \in kb_statements : x.graph = graphId}})

BeginRemoveStatement(statementId) ==
    /\ ~parseInt(statementId).nan
    /\ BeginDelete("removeStatement",
           {r.statement_id :
               r \in {x \in kb_statements :
                          x.statement_id = parseInt(statementId).val}})

StepDelete ==
    /\ pc = "deleting"
    /\ IF frames = <<>>
       THEN /\ pc' = "idle"
            /\ UNCHANGED <<kb_statements, kb_chunks, kb_chunks_fts, frames,
                           last>>
       ELSE LET res == deleteStep(Db, frames)
            IN  /\ kb_statements' = res.db.st
                /\ kb_chunks' = res.db.ch
                /\ kb_chunks_fts' = res.db.fts
                /\ frames' = res.frames
                /\ last' = [last EXCEPT
                               !.n = @ + Cardinality(kb_statements)
                                       - Cardinality(res.db.st),
                               !.c = @ + Cardinality(kb_chunks)
                                       - Cardinality(res.db.ch)]
                /\ pc' = pc
    /\ UNCHANGED <<seq_statements, seq_chunks, kb_terms, txn, journal,
                   scope_start, edge_cache>>

CascadeQuads ==
    {Quad(s, p, o, NamedNode("g1")) :
        s \in Subjects, p \in Predicates, o \in Objects}

CascadeNext ==
    \/ \E statement \in CascadeQuads : AddStatement(statement)
    \/ \E graphId \in GraphIds : BeginRemoveStatements(graphId)
    \/ \E statementId \in IdStrings : BeginRemoveStatement(statementId)
    \/ StepDelete

\* the engine runs a statement it has started to completion
CascadeSpec == Init /\ [][CascadeNext]_vars /\ WF_vars(StepDelete)

(***************************************************************************)
(* The atomic ingestion pattern: an interactive write transaction that     *)
(* inserts the object term, the statement and its chunk with the chunk's   *)
(* index entry, then commits; any failure on the way is caught and rolls   *)
(* the transaction back.                                                   *)
(***************************************************************************)
Restore(snapshot) ==
    /\ kb_statements' = snapshot.db.st
    /\ kb_chunks' = snapshot.db.ch
    /\ kb_chunks_fts' = snapshot.db.fts
    /\ seq_statements' = snapshot.seq_statements
    /\ seq_chunks' = snapshot.seq_chunks
    /\ kb_terms' = snapshot.terms

\* a catch block that rethrows without rolling back: what was written so
\* far stays
rethrowOnly(before, current) == current

\* txn.rollback(): the database returns to the journal's snapshot
rollback(before, current) == before

\* const txn = await this.client.transaction("write")
TxnBegin(statement, content) ==
    /\ Quiescent
    /\ seq_statements < MaxStatementId
    /\ seq_chunks < MaxChunkId
    /\ txn' = [at |-> "term", statement |-> statement, content |-> content]
    /\ journal' = Snapshot
    /\ scope_start' = Snapshot
    /\ last' = [op |-> "begin", m |-> 0, n |-> 0, c |-> 0]
    /\ UNCHANGED <<kb_statements, seq_statements, kb_chunks, seq_chunks,
                   kb_chunks_fts, kb_terms, pc, frames, edge_cache>>

\* 1. this._insertTerm(object, graphId, txn)
TxnInsertTerm ==
    /\ txn.at = "term"
    /\ kb_terms' = kb_terms \cup {txn.statement.object.value}
    /\ txn' = [txn EXCEPT !.at = "statement"]
    /\ UNCHANGED <<kb_statements, seq_statements, kb_chunks, seq_chunks,
                   kb_chunks_fts, journal, scope_start, edge_cache, pc, frames, last>>

\* 2. txn.execute(insertStatementSql)
TxnInsertStatement ==
    /\ txn.at = "statement"
    /\ LET res == insertValues(kb_statements, seq_statements,
                               <<encode(txn.statement)>>)
       IN  /\ kb_statements' = res.rows
           /\ seq_statements' = res.seq
    /\ txn' = [txn EXCEPT !.at = "chunk"]
    /\ UNCHANGED <<kb_chunks, seq_chunks, kb_chunks_fts, kb_terms, journal,
                   scope_start, edge_cache, pc, frames, last>>

\* the statement row the transaction's quad is stored as
txnStatementId ==
    LET v == encode(txn.statement)
        r == CHOOSE x \in kb_statements :
                 kb_statement_unique(x) = kb_statement_unique(v)
    IN  r.statement_id

\* 3. txn.execute(insertChunkVecSql): the chunk row
TxnInsertChunk ==
    /\ txn.at = "chunk"
    /\ kb_chunks' = kb_chunks
           \cup {ChunkRow(seq_chunks + 1, txnStatementId, txn.content)}
    /\ seq_chunks' = seq_chunks + 1
    /\ txn' = [txn EXCEPT !.at = "index"]
    /\ UNCHANGED <<kb_statements, seq_statements, kb_chunks_fts, kb_terms,
                   journal, scope_start, edge_cache, pc, frames, last>>

\* 3. txn.execute(insertChunkVecSql): the chunk's index entry
TxnIndexChunk ==
    /\ txn.at = "index"
    /\ kb_chunks_fts' = kb_chunks_ai(kb_chunks_fts,
           CHOOSE c \in kb_chunks : c.chunk_id = seq_chunks)
    /\ txn' = [txn EXCEPT !.at = "commit"]
    /\ UNCHANGED <<kb_statements, seq_statements, kb_chunks, seq_chunks,
                   kb_terms, journal, scope_start, edge_cache, pc, frames, last>>

\* await txn.commit()
TxnCommit ==
    /\ txn.at = "commit"
    /\ txn' = NoTransaction
    /\ last' = [op |-> "commit", m |-> 1,
                n |-> Cardinality(kb_statements)
                      - Cardinality(journal.db.st),
                c |-> 0]
    /\ UNCHANGED <<kb_statements, seq_statements, kb_chunks, seq_chunks,
                   kb_chunks_fts, kb_terms, journal, scope_start, edge_cache, pc, frames>>

\* catch (e) { txn.rollback(); throw e; }: any step of the scope, and the
\* commit itself, can throw.  The rollback is started but not awaited, so
\* the error reaches the caller while the rollback is still to run.
TxnFail ==
    /\ txn.at \in {"term", "statement", "chunk", "index", "commit"}
    /\ txn' = [txn EXCEPT !.at = "rollback"]
    /\ last' = [op |-> "failed",
                m |-> Cardinality(kb_statements) - Cardinality(journal.db.st),
                n |-> 0,
                c |-> Cardinality(kb_chunks) - Cardinality(journal.db.ch)]
    /\ UNCHANGED <<kb_statements, seq_statements, kb_chunks, seq_chunks,
                   kb_chunks_fts, kb_terms, journal, scope_start, edge_cache, pc, frames>>

\* the pending txn.rollback() runs
TxnRollback ==
    /\ txn.at = "rollback"
    /\ Restore(rollback(journal, Snapshot))
    /\ txn' = NoTransaction
    /\ last' = [last EXCEPT !.op = "rollback"]
    /\ UNCHANGED <<journal, scope_start, edge_cache, pc, frames>>

\* a reader that sees the tables as they are, uncommitted writes included
dirtyRead == Snapshot

\* what a reader on another connection sees: the writes of an open
\* transaction (BEGIN IMMEDIATE) and of a statement still running are not
\* visible until it commits
committed == IF Quiescent THEN Snapshot ELSE journal

TxnNext ==
    \/ \E statement \in Quads : \E content \in Contents :
          TxnBegin(statement, content)
    \/ TxnInsertTerm
    \/ TxnInsertStatement
    \/ TxnInsertChunk
    \/ TxnIndexChunk
    \/ TxnCommit
    \/ TxnFail
    \/ TxnRollback
    \/ \E graphId \in GraphIds : RemoveStatements(graphId)

TxnSpec == Init /\ [][TxnNext]_vars

(***************************************************************************)
(* Writers and readers side by side.  Every write is run in steps: the     *)
(* multi-row INSERT of addStatements value by value, a DELETE row by row   *)
(* with its triggers, the ingestion transaction statement by statement.    *)
(* A writer starts only when no other write holds the database; readers    *)
(* look at the store at every step.                                        *)
(***************************************************************************)
\* addStatements: the INSERT starts; frames holds the values still to insert
BeginAddStatements(statements) ==
    /\ Quiescent
    /\ Len(statements) > 0
    /\ seq_statements + Len(statements) <= MaxStatementId
    /\ pc' = "inserting"
    /\ frames' = <<[i \in 1..Len(statements) |-> encode(statements[i])]>>
    /\ journal' = Snapshot
    /\ last' = [op |-> "addStatements", m |-> Len(statements), n |-> 0,
                c |-> 0]
    /\ UNCHANGED <<kb_statements, seq_statements, kb_chunks, seq_chunks,
                   kb_chunks_fts, kb_terms, txn, scope_start, edge_cache>>

\* the INSERT handles its next value, or ends
StepInsert ==
    /\ pc = "inserting"
    /\ IF frames[1] = <<>>
       THEN /\ pc' = "idle"
            /\ frames' = <<>>
            /\ UNCHANGED <<kb_statements, seq_statements, last>>
       ELSE LET res == insertValues(kb_statements, seq_statements,
                                    <<Head(frames[1])>>)
            IN  /\ kb_statements' = res.rows
                /\ seq_statements' = res.seq
                /\ frames' = <<Tail(frames[1])>>
                /\ last' = [last EXCEPT
                               !.n = @ + Cardinality(res.rows)
                                       - Cardinality(kb_statements)]
                /\ pc' = pc
    /\ UNCHANGED <<kb_chunks, seq_chunks, kb_chunks_fts, kb_terms, txn,
                   journal, scope_start, edge_cache>>

ConcBatches == {Chain, <<Other>>, <<Chain[1], Other>>}

ConcNext ==
    \/ \E statements \in ConcBatches : BeginAddStatements(statements)
    \/ StepInsert
    \/ \E graphId \in GraphIds : BeginRemoveStatements(graphId)
    \/ \E statementId \in IdStrings : BeginRemoveStatement(statementId)
    \/ StepDelete
    \/ \E statement \in {Chain[1], Other} : TxnBegin(statement, "t1")
    \/ TxnInsertTerm
    \/ TxnInsertStatement
    \/ TxnInsertChunk
    \/ TxnIndexChunk
    \/ TxnCommit
    \/ TxnFail
    \/ TxnRollback

ConcSpec == Init /\ [][ConcNext]_vars

(***************************************************************************)
(* Codec model: one statement at a time, over every term kind in every     *)
(* quad position.                                                          *)
(***************************************************************************)
TermSubjects == {NamedNode("a"), BlankNode("b1")}
TermObjects ==
    {NamedNode("o"), BlankNode("b1"), BlankNode("_:b3"), PlainLiteral("leaf"),
     LangLiteral("hi", "en"), TypedLiteral("1", XSD_INTEGER)}
TermGraphs == {NamedNode("g1"), DefaultGraph}

TermQuads ==
    {Quad(s, p, o, g) : s \in TermSubjects, p \in Predicates,
                        o \in TermObjects, g \in TermGraphs}

CodecNext ==
    \/ \E statement \in TermQuads : AddStatement(statement)
    \/ \E g \in TermGraphs : RemoveStatements(g.value)

CodecSpec == Init /\ [][CodecNext]_vars

(***************************************************************************)
(* Hybrid search.  Scores are exact fractions [num, den].  The two rank    *)
(* lists are the answers of the full-text and the vector index: sequences  *)
(* of distinct chunk ids, best first.                                      *)
(***************************************************************************)
Frac(n, d) == [num |-> n, den |-> d]

FracAdd(a, b) == Frac(a.num * b.den + b.num * a.den, a.den * b.den)

FracEq(a, b) == a.num * b.den = b.num * a.den

FracLess(a, b) == a.num * b.den < b.num * a.den

\* the rows one rank list contributes: 1 / (k + rank) for its member at rank
rankScores(source, list, k) ==
    {[source |-> source, rowid |-> list[i], score |-> Frac(1, k + i)] :
        i \in 1..Len(list)}

\* combined_scores: the rows of both lists (UNION ALL)
combined_scores(fts, vec, k) ==
    rankScores("fts", fts, k) \cup rankScores("vec", vec, k)

\* a fusion that keeps the best single contribution of a group
RECURSIVE MAX(_)
MAX(rows) ==
    IF rows = {} THEN Frac(0, 1)
    ELSE LET r == CHOOSE x \in rows : TRUE
             rest == MAX(rows \ {r})
         IN  IF FracLess(rest, r.score) THEN r.score ELSE rest

\* SUM(s.score) over the rows of one group
RECURSIVE SUM(_)
SUM(rows) ==
    IF rows = {} THEN Frac(0, 1)
    ELSE LET r == CHOOSE x \in rows : TRUE
         IN  FracAdd(r.score, SUM(rows \ {r}))

\* FROM combined_scores s JOIN kb_chunks c ON s.rowid = c.id GROUP BY c.id
rrfRows(chunks, scores) ==
    {[id |-> c.chunk_id, term_id |-> c.statement_id, text |-> c.content,
      rrf_score |-> SUM({s \in scores : s.rowid = c.chunk_id})] :
        c \in {x \in chunks : \E s \in scores : s.rowid = x.chunk_id}}

\* an ORDER BY that also orders equal scores by ascending id
orderedByScoreThenId(seq) ==
    \A i \in 1..Len(seq) : \A j \in 1..Len(seq) :
        i < j => \/ FracLess(seq[j].rrf_score, seq[i].rrf_score)
                 \/ /\ FracEq(seq[j].rrf_score, seq[i].rrf_score)
                    /\ seq[i].id < seq[j].id

\* ORDER BY rrf_score DESC: rows of equal score come in any order
orderedByScore(seq) ==
    \A i \in 1..Len(seq) : \A j \in 1..Len(seq) :
        i < j => ~FracLess(seq[i].rrf_score, seq[j].rrf_score)

\* the answers the query can give: every arrangement of the rows that the
\* ORDER BY allows
hybridSearch(chunks, fts, vec, k) ==
    LET rows == rrfRows(chunks, combined_scores(fts, vec, k))
        n == Cardinality(rows)
    IN  {seq \in [1..n -> rows] :
            /\ \A i \in 1..n : \A j \in 1..n : seq[i] = seq[j] => i = j
            /\ orderedByScore(seq)}

\* sequences of distinct members of ids
RankLists(ids) ==
    {l \in UNION {[1..n -> ids] : n \in 0..Cardinality(ids)} :
        \A i \in 1..Len(l) : \A j \in 1..Len(l) : l[i] = l[j] => i = j}

Ks == {1, 60}

Search(fts, vec, k) ==
    /\ Quiescent
    /\ \E result \in hybridSearch(kb_chunks, fts, vec, k) :
          last' = [op |-> "search", fts |-> fts, vec |-> vec, k |-> k,
                   result |-> result]
    /\ UNCHANGED <<kb_statements, seq_statements, kb_chunks, seq_chunks,
                   kb_chunks_fts, kb_terms, txn, journal, scope_start, edge_cache, pc,
                   frames>>

SearchNext ==
    \/ /\ seq_chunks < MaxRanked
       /\ InsertChunk(NULL, "t1")
    \/ \E cid \in 1..MaxRanked : DeleteChunk(cid)
    \/ /\ last.op # "search"    \* a search changes nothing: one is enough
       /\ \E fts \in RankLists({e.rowid : e \in kb_chunks_fts}) :
             \E vec \in RankLists({c.chunk_id : c \in kb_chunks}) :
                \E k \in Ks : Search(fts, vec, k)

SearchSpec == Init /\ [][SearchNext]_vars

(***************************************************************************)
(* Reads as operations: what the caller of getStatements and getStatement  *)
(* is handed, between writes.                                              *)
(***************************************************************************)
GetStatements(graphId) ==
    /\ Quiescent
    /\ last' = [op |-> "getStatements", graphId |-> graphId,
                rows |-> selectByGraph(kb_statements, graphId),
                result |-> getStatements(graphId)]
    /\ UNCHANGED <<kb_statements, seq_statements, kb_chunks, seq_chunks,
                   kb_chunks_fts, kb_terms, txn, journal, scope_start, edge_cache, pc,
                   frames>>

GetStatement(statementId) ==
    /\ Quiescent
    /\ last' = [op |-> "getStatement", statementId |-> statementId,
                result |-> getStatement(statementId)]
    /\ UNCHANGED <<kb_statements, seq_statements, kb_chunks, seq_chunks,
                   kb_chunks_fts, kb_terms, txn, journal, scope_start, edge_cache, pc,
                   frames>>

ReadQuads ==
    Range(Chain) \cup
    {Other,
     Quad(BlankNode("b1"), NamedNode("p"), PlainLiteral("leaf"),
          NamedNode("g2")),
     Quad(NamedNode("a"), NamedNode("p"), PlainLiteral("leaf"),
          NamedNode("g1")),
     Quad(NamedNode("a"), NamedNode("p"), NamedNode("urn:uuid:1"),
          NamedNode("g1")),
     Quad(NamedNode("urn:uuid:1"), NamedNode("p"), PlainLiteral("leaf"),
          NamedNode("g1"))}

IsRead == last.op \in {"getStatements", "getStatement"}

ReadNext ==
    \/ \E statement \in ReadQuads :
          /\ seq_statements < MaxStatementId
          /\ AddStatement(statement)
    \/ \E graphId \in GraphIds : RemoveStatements(graphId)
    \/ \E statementId \in IdStrings : RemoveStatement(statementId)
    \/ /\ ~IsRead              \* a read changes nothing: one is enough
       /\ \E graphId \in GraphIds : GetStatements(graphId)
    \/ /\ ~IsRead
       /\ \E statementId \in IdStrings : GetStatement(statementId)

ReadSpec == Init /\ [][ReadNext]_vars

(***************************************************************************)
(* The query engine in front of the store: each world's graph is hydrated  *)
(* from kb_statements on the first read and kept warm; a write goes to     *)
(* the store and, upon success, invalidates the cache of its world.        *)
(***************************************************************************)
\* Cold Start: the graph of world w as the store enumerates it
hydrate(st, w) == <<getStatementsOf(st, w)>>

\* the cache of world w is discarded
invalidate(cache, w) == [cache EXCEPT ![w] = Cold]

\* a read of world w: hydrates a cold cache, then answers from the cache
WorldRead(w) ==
    /\ Quiescent
    /\ edge_cache' = [edge_cache EXCEPT
                         ![w] = IF @ = Cold THEN hydrate(kb_statements, w)
                                ELSE @]
    /\ last' = [op |-> "read", world |-> w, served |-> edge_cache'[w][1]]
    /\ UNCHANGED <<kb_statements, seq_statements, kb_chunks, seq_chunks,
                   kb_chunks_fts, kb_terms, txn, journal, scope_start, pc,
                   frames>>

\* a write of one statement to world w
WorldAddStatement(w, statement) ==
    /\ Quiescent
    /\ seq_statements < MaxStatementId
    /\ statement.graph.value = w
    /\ LET res == addStatementsEffect(kb_statements, seq_statements,
                                      <<statement>>)
       IN  /\ kb_statements' = res.rows
           /\ seq_statements' = res.seq
    /\ edge_cache' = invalidate(edge_cache, w)
    /\ last' = [op |-> "write", world |-> w]
    /\ UNCHANGED <<kb_chunks, seq_chunks, kb_chunks_fts, kb_terms, txn,
                   journal, scope_start, pc, frames>>

\* the statements of world w are deleted
WorldRemoveStatements(w) ==
    /\ Quiescent
    /\ LET db == deleteRows(Db, {r.statement_id :
                       r \in {x \in kb_statements : x.graph = w}}, 0)
       IN  /\ kb_statements' = db.st
           /\ kb_chunks' = db.ch
           /\ kb_chunks_fts' = db.fts
    /\ edge_cache' = invalidate(edge_cache, w)
    /\ last' = [op |-> "write", world |-> w]
    /\ UNCHANGED <<seq_statements, seq_chunks, kb_terms, txn, journal,
                   scope_start, pc, frames>>

\* one statement of world w is deleted by id
WorldRemoveStatement(w, statementId) ==
    /\ Quiescent
    /\ \E r \in kb_statements :
          /\ r.statement_id = statementId
          /\ r.graph = w
    /\ LET db == deleteRows(Db, {statementId}, 0)
       IN  /\ kb_statements' = db.st
           /\ kb_chunks' = db.ch
           /\ kb_chunks_fts' = db.fts
    /\ edge_cache' = invalidate(edge_cache, w)
    /\ last' = [op |-> "write", world |-> w]
    /\ UNCHANGED <<seq_statements, seq_chunks, kb_terms, txn, journal,
                   scope_start, pc, frames>>

WorldNext ==
    \/ \E w \in Worlds : WorldRead(w)
    \/ \E w \in Worlds : \E statement \in ReadQuads :
          WorldAddStatement(w, statement)
    \/ \E w \in Worlds : WorldRemoveStatements(w)
    \/ \E w \in Worlds : \E id \in 1..MaxStatementId :
          WorldRemoveStatement(w, id)

WorldSpec == Init /\ [][WorldNext]_vars

(***************************************************************************)
(* addStatements that fails.  The values mapping runs before the INSERT    *)
(* and throws on a term it cannot read; the INSERT itself is one           *)
(* auto-committed statement that can fail on a value (NOT NULL) or on the  *)
(* storage while it runs.                                                  *)
(***************************************************************************)
\* a property that holds null or undefined instead of a string
null == "<null>"

\* quad.object.datatype.value throws when a Literal has no datatype
mapThrows(statements) ==
    \E i \in 1..Len(statements) :
        /\ statements[i].object.termType = "Literal"
        /\ statements[i].object.datatype = null

\* subject, predicate, object, graph TEXT NOT NULL
violatesNotNull(v) ==
    null \in {v.subject, v.predicate, v.object, v.graph}

\* conflict resolution FAIL: the statement stops and keeps what it wrote
failStatement(before, current) == current

\* conflict resolution ABORT, the default: the statement stops and the
\* changes it made so far are backed out
abortStatement(before, current) == before

\* addStatements whose values mapping throws: the INSERT is never issued
AddStatementsThrows(statements) ==
    /\ Quiescent
    /\ mapThrows(statements)
    /\ last' = [op |-> "addStatementsFailed", m |-> Len(statements),
                n |-> 0, c |-> 0]
    /\ UNCHANGED <<kb_statements, seq_statements, kb_chunks, seq_chunks,
                   kb_chunks_fts, kb_terms, txn, journal, scope_start,
                   edge_cache, pc, frames>>

\* the running INSERT fails at its next value: last.n keeps the number of
\* rows the statement had written before it failed
AbortInsert(cause) ==
    /\ pc = "inserting"
    /\ frames[1] # <<>>
    /\ cause = "constraint" => violatesNotNull(Head(frames[1]))
    /\ Restore(abortStatement(journal, Snapshot))
    /\ pc' = "idle"
    /\ frames' = <<>>
    /\ last' = [last EXCEPT !.op = "addStatementsFailed"]
    /\ UNCHANGED <<txn, journal, scope_start, edge_cache>>

Causes == {"constraint", "storage"}

BatchQuads ==
    {Chain[1], Chain[2], Other,
     Quad(NamedNode(null), NamedNode("p"), PlainLiteral("leaf"),
          NamedNode("g1")),
     Quad(NamedNode("a"), NamedNode("p"), TypedLiteral("leaf", null),
          NamedNode("g1"))}

Batches == UNION {[1..n -> BatchQuads] : n \in 1..MaxBatch}

BatchNext ==
    \/ \E statements \in Batches :
          /\ ~mapThrows(statements)
          /\ BeginAddStatements(statements)
    \/ \E statements \in Batches : AddStatementsThrows(statements)
    \/ /\ pc = "inserting"
       /\ frames[1] # <<>> => ~violatesNotNull(Head(frames[1]))
       /\ StepInsert
    \/ \E cause \in Causes : AbortInsert(cause)
    \/ \E graphId \in GraphIds : RemoveStatements(graphId)

BatchSpec == Init /\ [][BatchNext]_vars

(***************************************************************************)
(* Literals through the store: every literal shape a data factory hands    *)
(* to addStatement, written and read back by both read paths.              *)
(***************************************************************************)
\* df.literal("x", df.namedNode("")): a datatype node with an empty IRI
LiteralObjects ==
    {PlainLiteral("leaf"), LangLiteral("hi", "en"),
     TypedLiteral("1", XSD_INTEGER), TypedLiteral("x", ""), NamedNode("o")}

LiteralQuads ==
    {Quad(NamedNode("a"), NamedNode("p"), o, g) :
        o \in LiteralObjects, g \in Graphs}

LiteralNext ==
    \/ \E statement \in LiteralQuads :
          /\ seq_statements < MaxStatementId
          /\ AddStatement(statement)
    \/ \E graphId \in GraphIds : RemoveStatements(graphId)
    \/ /\ ~IsRead
       /\ \E graphId \in GraphIds : GetStatements(graphId)
    \/ /\ ~IsRead
       /\ \E statementId \in IdStrings : GetStatement(statementId)

LiteralSpec == Init /\ [][LiteralNext]_vars

(***************************************************************************)
(* The HTTP SDK.  Every method issues one fetch and turns the response     *)
(* into a returned value, null or a thrown error.  The class               *)
(* InternalWorlds exists twice in the repository: in sdk.ts and in         *)
(* sdk/internal-worlds.ts.  A request is its method, URL and Authorization *)
(* header; the server's response is an input.                              *)
(***************************************************************************)
SDK == "sdk.ts"
INTERNAL == "sdk/internal-worlds.ts"

\* new InternalWorlds({ baseUrl, apiKey })
options == [baseUrl |-> "http://localhost:8000", apiKey |-> "sk_admin"]

Request(method, path) ==
    [method |-> method, url |-> options.baseUrl \o path,
     authorization |-> "Bearer " \o options.apiKey]

Response(status, body) == [status |-> status, body |-> body]

\* Response.ok
ok(response) == response.status >= 200 /\ response.status <= 299

HttpError(response) == "HTTP error! status: " \o toString(response.status)

\* a method that never looks at response.ok
ignoreStatus(response, result) == result

\* if (!response.ok) throw new Error(...); otherwise the method's result
throwUnlessOk(response, result) ==
    IF ~ok(response)
    THEN [value |-> HttpError(response), kind |-> "throws"]
    ELSE result

returns(response) == [value |-> response.body, kind |-> "returns"]

resolves == [value |-> "", kind |-> "resolves"]

returnsNull == [value |-> "", kind |-> "null"]

\* what a call leaves behind: the requests it issued, the response it got,
\* how it ended
Call(op, impl, requests, response, outcome) ==
    [op |-> op, impl |-> impl, requests |-> requests, response |-> response,
     outcome |-> outcome]

\* the store, which no SDK call touches
store ==
    <<kb_statements, seq_statements, kb_chunks, seq_chunks, kb_chunks_fts,
      kb_terms, txn, journal, scope_start, edge_cache, pc, frames>>

getWorld(worldId, response) ==
    /\ Quiescent
    /\ UNCHANGED store
    /\ last' = Call("getWorld", SDK,
         <<Request("GET", "/worlds/" \o worldId)>>, response,
         IF response.status = 404 THEN returnsNull
         ELSE throwUnlessOk(response, returns(response)))

setWorld(worldId, response) ==
    /\ Quiescent
    /\ UNCHANGED store
    /\ last' = Call("setWorld", SDK, <<Request("PUT", "/worlds/" \o worldId)>>, response,
         throwUnlessOk(response, resolves))

addQuads(worldId, response) ==
    /\ Quiescent
    /\ UNCHANGED store
    /\ last' = Call("addQuads", SDK, <<Request("POST", "/worlds/" \o worldId)>>, response,
         throwUnlessOk(response, resolves))

removeWorld(worldId, response) ==
    /\ Quiescent
    /\ UNCHANGED store
    /\ last' = Call("removeWorld", SDK, <<Request("DELETE", "/worlds/" \o worldId)>>,
         response, throwUnlessOk(response, resolves))

queryWorld(worldId, response) ==
    /\ Quiescent
    /\ UNCHANGED store
    /\ last' = Call("queryWorld", SDK,
         <<Request("POST", "/worlds/" \o worldId \o "/sparql")>>, response,
         throwUnlessOk(response, returns(response)))

updateWorld(worldId, response) ==
    /\ Quiescent
    /\ UNCHANGED store
    /\ last' = Call("updateWorld", SDK,
         <<Request("POST", "/worlds/" \o worldId \o "/sparql")>>, response,
         throwUnlessOk(response, resolves))

updateMetadata(worldId, response) ==
    /\ Quiescent
    /\ UNCHANGED store
    /\ last' = Call("updateMetadata", SDK, <<Request("PATCH", "/worlds/" \o worldId)>>,
         response, throwUnlessOk(response, resolves))

createAccount(impl, response) ==
    /\ Quiescent
    /\ UNCHANGED store
    /\ last' = Call("createAccount", impl, <<Request("POST", "/accounts")>>, response,
         throwUnlessOk(response, returns(response)))

getAccount(impl, accountId, response) ==
    /\ Quiescent
    /\ UNCHANGED store
    /\ last' = Call("getAccount", impl, <<Request("GET", "/accounts/" \o accountId)>>,
         response,
         IF ~ok(response) /\ response.status = 404 THEN returnsNull
         ELSE throwUnlessOk(response, returns(response)))

updateAccount(impl, accountId, response) ==
    /\ Quiescent
    /\ UNCHANGED store
    /\ last' = Call("updateAccount", impl, <<Request("PUT", "/accounts/" \o accountId)>>,
         response, throwUnlessOk(response, resolves))

removeAccount(impl, accountId, response) ==
    /\ Quiescent
    /\ UNCHANGED store
    /\ last' = Call("removeAccount", impl,
         <<Request("DELETE", "/accounts/" \o accountId)>>, response,
         throwUnlessOk(response, resolves))

getWorldsByAccount(impl, accountId, response) ==
    /\ Quiescent
    /\ UNCHANGED store
    /\ last' = Call("getWorldsByAccount", impl,
         <<Request("GET", "/accounts/" \o accountId \o "/worlds")>>, response,
         throwUnlessOk(response, returns(response)))

listAccounts(impl, response) ==
    /\ Quiescent
    /\ UNCHANGED store
    /\ last' = Call("listAccounts", impl, <<Request("GET", "/accounts")>>, response,
         throwUnlessOk(response, returns(response)))

\* the path differs between the two classes
rotatePath(impl, accountId) ==
    IF impl = SDK THEN "/accounts/" \o accountId \o "/key/rotate"
    ELSE "/accounts/" \o accountId \o "/rotate"

rotateAccountKey(impl, accountId, response) ==
    /\ Quiescent
    /\ UNCHANGED store
    /\ last' = Call("rotateAccountKey", impl,
         <<Request("POST", rotatePath(impl, accountId))>>, response,
         throwUnlessOk(response, returns(response)))

\* only the class of sdk.ts has this method
revokeAccountKey(accountId, response) ==
    /\ Quiescent
    /\ UNCHANGED store
    /\ last' = Call("revokeAccountKey", SDK,
         <<Request("DELETE", "/accounts/" \o accountId \o "/key")>>, response,
         throwUnlessOk(response, resolves))

endsWith(s, suffix) ==
    /\ Len(s) >= Len(suffix)
    /\ SubSeq(s, Len(s) - Len(suffix) + 1, Len(s)) = suffix

\* the fetch the test script installs
mockFetch(request) ==
    IF endsWith(request.url, "/key/rotate") /\ request.method = "POST"
    THEN Response(200, "sk_new_key")
    ELSE IF endsWith(request.url, "/key") /\ request.method = "DELETE"
    THEN Response(200, "")
    ELSE Response(404, "Not Found")

\* the calls of testSdk, each against the mock
testRotateAccountKey(impl) ==
    rotateAccountKey(impl, "acc_123",
        mockFetch(Request("POST", rotatePath(impl, "acc_123"))))

testRevokeAccountKey ==
    revokeAccountKey("acc_123",
        mockFetch(Request("DELETE", "/accounts/acc_123/key")))

Implementations == {SDK, INTERNAL}
WorldIds == {"w1", "w2"}
AccountIds == {"acc_123", "acc_456"}
Statuses == {200, 204, 400, 401, 404, 500}
Bodies == {"", "sk_new_key"}
Responses == {Response(status, body) : status \in Statuses, body \in Bodies}

SdkNext ==
    \/ \E w \in WorldIds : \E r \in Responses : getWorld(w, r)
    \/ \E w \in WorldIds : \E r \in Responses : setWorld(w, r)
    \/ \E w \in WorldIds : \E r \in Responses : addQuads(w, r)
    \/ \E w \in WorldIds : \E r \in Responses : removeWorld(w, r)
    \/ \E w \in WorldIds : \E r \in Responses : queryWorld(w, r)
    \/ \E w \in WorldIds : \E r \in Responses : updateWorld(w, r)
    \/ \E w \in WorldIds : \E r \in Responses : updateMetadata(w, r)
    \/ \E i \in Implementations : \E r \in Responses : createAccount(i, r)
    \/ \E i \in Implementations : \E a \in AccountIds : \E r \in Responses :
          getAccount(i, a, r)
    \/ \E i \in Implementations : \E a \in AccountIds : \E r \in Responses :
          updateAccount(i, a, r)
    \/ \E i \in Implementations : \E a \in AccountIds : \E r \in Responses :
          removeAccount(i, a, r)
    \/ \E i \in Implementations : \E a \in AccountIds : \E r \in Responses :
          getWorldsByAccount(i, a, r)
    \/ \E i \in Implementations : \E r \in Responses : listAccounts(i, r)
    \/ \E i \in Implementations : \E a \in AccountIds : \E r \in Responses :
          rotateAccountKey(i, a, r)
    \/ \E a \in AccountIds : \E r \in Responses : revokeAccountKey(a, r)
    \/ \E i \in Implementations : testRotateAccountKey(i)
    \/ testRevokeAccountKey

SdkSpec == Init /\ [][SdkNext]_vars

(***************************************************************************)
(* Properties of the statement table.                                      *)
(***************************************************************************)
\* the seven fields the data model makes unique
SevenFields(r) ==
    <<r.subject, r.predicate, r.object, r.graph, r.term_type,
      r.object_language, r.object_datatype>>

\* C1: idempotent insert.  In every reachable state and for every batch B
\* the store can take, addStatements(B) stores each quad of B as exactly
\* one row, and applying addStatements(B) again leaves the table as the
\* first application left it.
C1_IdempotentInsert ==
    \A k \in 0..MaxBatch :
        seq_statements + k <= MaxStatementId =>
            \A B \in [1..k -> Quads] :
                LET once == addStatementsEffect(kb_statements,
                                                seq_statements, B)
                    twice == addStatementsEffect(once.rows, once.seq, B)
                IN  /\ twice.rows = once.rows
                    /\ \A i \in 1..k :
                          Cardinality({r \in once.rows :
                              SevenFields(r) = SevenFields(encode(B[i]))}) = 1

\* a batch of two that re-adds stored rows (or one row twice) changed nothing
C1_Witness ==
    /\ last.op = "addStatements"
    /\ last.m = 2
    /\ last.n = 0
    /\ kb_statements # {}

\* C2: uniqueness.  In every reachable state no two rows of kb_statements
\* agree on (subject, predicate, object, graph, term_type, object_language,
\* object_datatype).
C2_UniqueRows ==
    \A r1 \in kb_statements : \A r2 \in kb_statements :
        SevenFields(r1) = SevenFields(r2) => r1 = r2

\* a duplicate was submitted and skipped while two rows with the same
\* subject, predicate and object text live in different graphs
C2_Witness ==
    /\ last.op = "addStatements"
    /\ last.n < last.m
    /\ \E r1 \in kb_statements : \E r2 \in kb_statements :
          /\ r1.graph # r2.graph
          /\ r1.subject = r2.subject
          /\ r1.object = r2.object

\* blank nodes reachable from `nodes` by following the rows of st from
\* subject to blank-node object
RECURSIVE BlankReach(_, _)
BlankReach(st, nodes) ==
    LET more == nodes \cup
                {r.object : r \in {x \in st : /\ x.subject \in nodes
                                              /\ x.term_type = "BlankNode"}}
    IN  IF more = nodes THEN nodes ELSE BlankReach(st, more)

C5_Isolation ==
    [][/\ \A G \in GraphIds :
             \A q \in Range(getStatements(G)) : q.graph.value = G
       /\ \A G \in GraphIds :
             RemoveStatements(G) =>
                 \A r \in kb_statements \ kb_statements' : r.graph = G
       /\ \A s \in IdStrings :
             RemoveStatement(s) =>
                 \A t \in {x \in kb_statements :
                               x.statement_id = parseInt(s).val} :
                     \A r \in kb_statements \ kb_statements' :
                         r.graph = t.graph]_vars

\* C10: term round trip.  A quad stored by addStatement is read back by
\* getStatements of its graph equal to the original quad.
C10_RoundTrip ==
    [][\A q \in TermQuads :
          AddStatement(q) =>
              q \in Range(getStatementsOf(kb_statements', q.graph.value))]_vars

\* C4: cascade termination.  Every DELETE that has started, by id or by
\* graph, with the trigger cascade it sets off, runs to completion.
C4_CascadeTerminates == (pc = "deleting") ~> (pc = "idle")

\* a DELETE has finished on a table in which two blank nodes pointed at
\* each other, and both statements of the cycle are gone
C4_Witness ==
    /\ pc = "idle"
    /\ last.op = "removeStatement"
    /\ last.n = 3
    /\ \E r1 \in journal.db.st : \E r2 \in journal.db.st :
          /\ r1 # r2
          /\ r1.term_type = "BlankNode" /\ r2.term_type = "BlankNode"
          /\ r1.object = r2.subject /\ r2.object = r1.subject
          /\ r1 \notin kb_statements /\ r2 \notin kb_statements

(***************************************************************************)
(* Properties of the chunk table and its full-text index.                  *)
(***************************************************************************)
\* C6: index zero-drift.  In every committed state the chunk ids present
\* in kb_chunks_fts are exactly the chunk ids present in kb_chunks.
C6_ZeroDrift ==
    {e.rowid : e \in kb_chunks_fts} = {c.chunk_id : c \in kb_chunks}

\* a DELETE on kb_statements has taken chunks with it while another chunk
\* stays indexed
C6_Witness ==
    /\ last.op \in {"removeStatement", "removeStatements"}
    /\ last.c >= 1
    /\ kb_chunks # {}

\* C7: indexed text mirrors content.  In every committed state the index
\* holds, for every chunk, exactly one entry under its chunk id, and that
\* entry's text is the chunk's current content; no entry with superseded
\* content remains.
C7_IndexMirrorsContent ==
    \A c \in kb_chunks :
        {e \in kb_chunks_fts : e.rowid = c.chunk_id}
            = {FtsEntry(c.chunk_id, c.content)}

\* an UPDATE has just replaced the content of a chunk
C7_Witness ==
    /\ last.op = "updateChunk"
    /\ last.m = 1
    /\ last.n = 1

\* C8: a chunk follows its statement.  After every step each chunk with a
\* non-null statement_id references an existing statement, and a step that
\* deletes a chunk leaves kb_statements as it was.
C8_ChunkFollowsStatement ==
    [][/\ \A c \in kb_chunks' :
             c.statement_id # NULL =>
                 \E r \in kb_statements' : r.statement_id = c.statement_id
       /\ \A cid \in 1..MaxChunkId :
             DeleteChunk(cid) => kb_statements' = kb_statements]_vars

\* deleting the head of the chain by id removed all three statements and,
\* with them, two chunks
C8_Witness ==
    /\ last.op = "removeStatement"
    /\ last.m = 1
    /\ last.n = 3
    /\ last.c = 2

(***************************************************************************)
(* Properties of the write scope.                                          *)
(***************************************************************************)
\* C9: atomicity.  After a write scope has failed, at whatever step, the
\* store readers see is what it was when the scope opened, both while the
\* rollback is pending and once it has run, when no statement, chunk, index
\* entry or term written in the scope is left in the tables.
C9_Atomicity ==
    /\ last.op \in {"failed", "rollback"} => committed = scope_start
    /\ last.op = "rollback" => Snapshot = scope_start

\* a scope failed after it had inserted a new statement and its chunk row,
\* before the chunk's index entry was written
C9_Witness ==
    /\ last.op = "rollback"
    /\ last.m = 1
    /\ last.c = 1
    /\ txn.at = "idle"

(***************************************************************************)
(* Properties of hybrid search.                                            *)
(***************************************************************************)
\* the contribution of one rank list to a chunk's score
Contribution(list, k, id) ==
    IF \E i \in 1..Len(list) : list[i] = id
    THEN Frac(1, k + (CHOOSE i \in 1..Len(list) : list[i] = id))
    ELSE Frac(0, 1)

\* every chunk of either list is returned once, scored with the sum of
\* 1 / (k + rank) over the lists it is in, and nothing else is returned
ScoresAreSums ==
    last.op = "search" =>
        LET res == last.result
            ids == {last.fts[i] : i \in 1..Len(last.fts)}
                       \cup {last.vec[i] : i \in 1..Len(last.vec)}
        IN  /\ {res[i].id : i \in 1..Len(res)} = ids
            /\ Len(res) = Cardinality(ids)
            /\ \A i \in 1..Len(res) :
                  FracEq(res[i].rrf_score,
                         FracAdd(Contribution(last.fts, last.k, res[i].id),
                                 Contribution(last.vec, last.k, res[i].id)))

\* the worked example: X = 1, Y = 2, Z = 3
IsExample ==
    /\ last.op = "search"
    /\ last.fts = <<1, 2>>
    /\ last.vec = <<2, 3>>
    /\ last.k = 60

ExampleScore(id) ==
    (CHOOSE r \in Range(last.result) : r.id = id).rrf_score

\* C11 as stated: scores are the sums, and in the example score(Y) = 2/61,
\* score(X) = 1/61, score(Z) = 1/62.
C11_RrfScore ==
    /\ ScoresAreSums
    /\ IsExample =>
          /\ FracEq(ExampleScore(2), Frac(2, 61))
          /\ FracEq(ExampleScore(1), Frac(1, 61))
          /\ FracEq(ExampleScore(3), Frac(1, 62))

\* C11 amended: scores are the sums, and in the example
\* score(Y) = 1/62 + 1/61 = 123/3782, score(X) = 1/61, score(Z) = 1/62.
C11_RrfScoreAmended ==
    /\ ScoresAreSums
    /\ IsExample =>
          /\ FracEq(ExampleScore(2), Frac(123, 3782))
          /\ FracEq(ExampleScore(1), Frac(1, 61))
          /\ FracEq(ExampleScore(3), Frac(1, 62))

\* the example has been searched
C11_Witness == IsExample /\ Len(last.result) = 3

\* C12: the search result is in non-increasing score order and chunks of
\* equal score are in ascending chunk id order.
C12_RrfOrdering ==
    last.op = "search" => orderedByScoreThenId(last.result)

(***************************************************************************)
(* Properties of ingestion and reads.                                      *)
(***************************************************************************)
\* the identifiers under which the table holds blank nodes
blankIdentifiers(st) ==
    {r.object : r \in {x \in st : x.term_type = "BlankNode"}}

\* C13: skolem stability.  Within one addStatements call, every reference
\* to one blank-node local id is stored under one identifier, and that
\* identifier is none of those the table already holds for the blank nodes
\* of earlier calls.
C13_SkolemStability ==
    [][\A k \in 0..MaxBatch : \A B \in [1..k -> Quads] :
          AddStatements(B) =>
              LET values == [i \in 1..k |-> encode(B[i])]
              IN  /\ \A i \in 1..k : \A j \in 1..k :
                        /\ B[i].object.termType = "BlankNode"
                        /\ B[j].subject.termType = "BlankNode"
                        /\ B[i].object.value = B[j].subject.value
                        => values[i].object = values[j].subject
                  /\ \A i \in 1..k :
                        B[i].object.termType = "BlankNode"
                        => values[i].object
                               \notin blankIdentifiers(kb_statements)
                  /\ \A i \in 1..k :
                        B[i].subject.termType = "BlankNode"
                        => values[i].subject
                               \notin blankIdentifiers(kb_statements)]_vars

\* C14: speculative lookup.  For every id string that is not the decimal
\* string of the statement_id of a stored statement, getStatement returns
\* null.
C14_SpeculativeLookup ==
    \A s \in IdStrings :
        (\A r \in kb_statements : toString(r.statement_id) # s)
            => getStatement(s) = <<>>

C16_CompleteReadBack ==
    last.op = "getStatements" =>
        LET stored == {r \in kb_statements : r.graph = last.graphId}
        IN  /\ Len(last.result) = Cardinality(stored)
            /\ \A r \in stored :
                  Cardinality({i \in 1..Len(last.result) :
                      /\ last.result[i].subject.value = r.subject
                      /\ last.result[i].graph.value = r.graph
                      /\ last.result[i].object.termType = r.term_type
                      /\ last.result[i].object.value = r.object}) = 1

\* C17: delete by graph.  After removeStatements(G), getStatements(G)
\* is empty.
C17_DeleteByGraph ==
    [][\A G \in GraphIds :
          RemoveStatements(G) =>
              getStatementsOf(kb_statements', G) = <<>>]_vars

\* removeStatements emptied a graph of two statements while another graph
\* kept its own
C17_Witness ==
    /\ last.op = "removeStatements"
    /\ last.m = 2
    /\ kb_statements # {}
    /\ \A r \in kb_statements : r.graph = "g2"

\* statements reachable from row t by the blank-node cascade
Descendants(st, t) ==
    IF t.term_type = "BlankNode"
    THEN {r \in st : r.subject \in BlankReach(st, {t.object})}
    ELSE {}

\* C18: delete by id.  removeStatement(id), with id the decimal string of a
\* stored statement's id, removes that statement: getStatement(id) is null
\* afterwards and getStatements of its graph no longer has it; every
\* statement that is not a blank-node descendant of it stays as it was.
C18_DeleteById ==
    [][\A t \in kb_statements :
          RemoveStatement(toString(t.statement_id)) =>
              /\ t \notin kb_statements'
              /\ getStatementOf(kb_statements', toString(t.statement_id))
                     = <<>>
              /\ Len(getStatementsOf(kb_statements', t.graph))
                     < Len(getStatementsOf(kb_statements, t.graph))
              /\ \A r \in kb_statements \ ({t} \cup Descendants(kb_statements, t)) :
                    r \in kb_statements']_vars

(***************************************************************************)
(* Properties of concurrent writers and readers.                           *)
(***************************************************************************)
\* a write run alone, as one step, from database snapshot j
serialAdd(j, B) ==
    LET res == addStatementsEffect(j.db.st, j.seq_statements, B)
    IN  [j EXCEPT !.db.st = res.rows, !.seq_statements = res.seq]

serialDelete(j, matched) == [j EXCEPT !.db = deleteRows(j.db, matched, 0)]

serialIngest(j, q, content) ==
    LET res == insertValues(j.db.st, j.seq_statements, <<encode(q)>>)
        sid == (CHOOSE x \in res.rows :
                    SevenFields(x) = SevenFields(encode(q))).statement_id
        new == ChunkRow(j.seq_chunks + 1, sid, content)
    IN  [db |-> Database(res.rows, j.db.ch \cup {new},
                         j.db.fts \cup {FtsEntry(new.chunk_id, content)}),
         seq_statements |-> res.seq,
         seq_chunks |-> j.seq_chunks + 1,
         terms |-> j.terms \cup {q.object.value}]

\* the states one whole write can lead to from j
SerialOutcomes(j) ==
    {serialAdd(j, B) : B \in ConcBatches}
    \cup {serialDelete(j, {r.statement_id :
                              r \in {x \in j.db.st : x.graph = G}}) :
             G \in GraphIds}
    \cup {serialDelete(j, {id} \cap {r.statement_id : r \in j.db.st}) :
             id \in 1..MaxStatementId}
    \cup {serialIngest(j, q, "t1") : q \in {Chain[1], Other}}

C20_InvalidateOnWrite ==
    [][/\ last'.op = "write" =>
             /\ edge_cache'[last'.world] = Cold
             /\ \A w \in Worlds \ {last'.world} :
                   edge_cache'[w] = edge_cache[w]
       /\ \A w \in Worlds :
             edge_cache'[w] # Cold =>
                 edge_cache'[w] = hydrate(kb_statements', w)]_vars

(***************************************************************************)
(* Properties of the literal columns and of the two read paths.            *)
(***************************************************************************)
\* C21: literal encoding invariant.  Every stored row whose term_type is
\* Literal has at most one of object_language and object_datatype
\* non-empty, and a row whose term_type is not Literal has both empty.
C21_LiteralEncoding ==
    \A r \in kb_statements :
        /\ r.term_type = "Literal" =>
              ~(r.object_language # "" /\ r.object_datatype # "")
        /\ r.term_type # "Literal" =>
              (r.object_language = "" /\ r.object_datatype = "")

\* the literal a Literal row stands for: language first, then datatype,
\* then the plain string literal
literalOf(r) ==
    IF r.object_language # "" THEN LangLiteral(r.object, r.object_language)
    ELSE IF r.object_datatype # "" THEN TypedLiteral(r.object, r.object_datatype)
    ELSE PlainLiteral(r.object)

\* C22: literal decoding.  For a row with term_type Literal, getStatements
\* and getStatement both yield a language-tagged literal when
\* object_language is non-empty, otherwise a literal typed with
\* object_datatype when that is non-empty, otherwise a plain string
\* literal, never a literal with an empty-IRI datatype.
C22_LiteralDecoding ==
    /\ last.op = "getStatements" =>
          \A i \in 1..Len(last.rows) :
              last.rows[i].term_type = "Literal" =>
                  /\ last.result[i].object = literalOf(last.rows[i])
                  /\ last.result[i].object.datatype # ""
    /\ last.op = "getStatement" =>
          \A r \in kb_statements :
              (/\ r.term_type = "Literal"
               /\ ~parseInt(last.statementId).nan
               /\ parseInt(last.statementId).val = r.statement_id) =>
                  /\ last.result = <<[decodeOne(r) EXCEPT
                                         !.object = literalOf(r)]>>
                  /\ last.result[1].object.datatype # ""

\* C29: read-path agreement.  For every stored statement with id i and
\* graph G, getStatement(i) returns a quad equal in all four positions
\* to the element for that statement in getStatements(G).
C29_ReadPathAgreement ==
    \A r \in kb_statements :
        LET rows == selectByGraph(kb_statements, r.graph)
            quads == getStatements(r.graph)
        IN  \A i \in 1..Len(rows) :
                rows[i] = r =>
                    getStatement(toString(r.statement_id)) = <<quads[i]>>

(***************************************************************************)
(* Properties of deletes and of statement ids.                             *)
(***************************************************************************)
\* C25: term_type is authoritative for cascading.  Deleting by id a
\* statement whose object term_type is not BlankNode, whatever its object
\* text starts with, deletes no other statement.
C25_TermTypeAuthoritative ==
    [][\A t \in kb_statements :
          (/\ t.term_type # "BlankNode"
           /\ RemoveStatement(toString(t.statement_id))) =>
              kb_statements' = kb_statements \ {t}]_vars

\* C26: statement identity.  Stored statements have distinct ids, and a
\* newly inserted statement receives an id greater than every id assigned
\* before: the sequence never runs backwards, bounds every stored id, and
\* every new row lies above it.
C26_StatementIdentity ==
    [][/\ \A r \in kb_statements' \ kb_statements :
             /\ r.statement_id > seq_statements
             /\ \A x \in kb_statements : r.statement_id > x.statement_id
       /\ seq_statements' >= seq_statements
       /\ \A r \in kb_statements' : r.statement_id <= seq_statements'
       /\ \A r, x \in kb_statements' :
             r.statement_id = x.statement_id => r = x
       /\ \A r \in kb_statements' :
             \A x \in kb_statements :
                r.statement_id = x.statement_id => r = x]_vars

\* a statement was inserted after the row holding the largest id had been
\* deleted: it is alone in the table and its id is not the first one
C26_Witness ==
    /\ last.op = "addStatements"
    /\ last.n = 1
    /\ Cardinality(kb_statements) = 1
    /\ \A r \in kb_statements : r.statement_id = seq_statements
    /\ seq_statements > 1

\* the rows a DELETE statement matches itself, before any trigger runs
matchedBy(G) == {r \in kb_statements : r.graph = G}

\* r's subject is still the blank-node object of a statement of st
pointedAt(st, r) ==
    \E x \in st : x.term_type = "BlankNode" /\ x.object = r.subject

\* C28: cascade precision for shared blank nodes.  A delete removes
\* through the cascade a statement whose subject is blank node B only if,
\* once the delete has finished, no surviving statement has B as its
\* object.
C28_CascadePrecision ==
    [][/\ \A t \in kb_statements :
             RemoveStatement(toString(t.statement_id)) =>
                 \A r \in (kb_statements \ kb_statements') \ {t} :
                     ~pointedAt(kb_statements', r)
       /\ \A G \in GraphIds :
             RemoveStatements(G) =>
                 \A r \in (kb_statements \ kb_statements') \ matchedBy(G) :
                     ~pointedAt(kb_statements', r)]_vars

\* s is, from its first to its last character, the decimal form of an
\* integer
IsDecimal(s) ==
    LET digits == IF Len(s) > 0 /\ CharAt(s, 1) = "-"
                  THEN SubSeq(s, 2, Len(s)) ELSE s
    IN  /\ Len(digits) > 0
        /\ \A i \in 1..Len(digits) : IsDigit(CharAt(digits, i))

\* s is the decimal form of the id of a stored statement
NamesStored(s) == \E r \in kb_statements : s = toString(r.statement_id)

\* C30: unparseable delete is a no-op.  removeStatement(s) with s not
\* entirely the decimal form of an integer, or naming an absent id,
\* deletes nothing and leaves statements and chunks unchanged.
C30_UnparseableDeleteNoOp ==
    [][\A s \in IdStrings :
          (/\ ~IsDecimal(s) \/ ~NamesStored(s)
           /\ RemoveStatement(s)) =>
              UNCHANGED <<kb_statements, kb_chunks, kb_chunks_fts>>]_vars

(***************************************************************************)
(* Properties of a failing batch.                                          *)
(***************************************************************************)
\* C27: batch all-or-nothing.  If addStatements(B) fails, in the values
\* mapping, on a constraint other than uniqueness or on a storage error,
\* the store is what it was when the call began: no statement of B is
\* stored.
C27_BatchAllOrNothing ==
    [][(last'.op = "addStatementsFailed" /\ last.op # "addStatementsFailed") =>
          LET before == IF pc = "inserting" THEN journal ELSE Snapshot
          IN  /\ Snapshot' = before
              /\ kb_statements' = before.db.st]_vars

\* a batch failed after its statement had already written a row, and the
\* table is the one of before the call
C27_Witness ==
    /\ last.op = "addStatementsFailed"
    /\ last.m = 2
    /\ last.n = 1
    /\ kb_statements = journal.db.st
    /\ pc = "idle"

(***************************************************************************)
(* Properties of the SDK.                                                  *)
(***************************************************************************)
SdkOps ==
    {"getWorld", "setWorld", "addQuads", "removeWorld", "queryWorld",
     "updateWorld", "updateMetadata", "createAccount", "getAccount",
     "updateAccount", "removeAccount", "getWorldsByAccount", "listAccounts",
     "rotateAccountKey", "revokeAccountKey"}

\* the account id a request for an account's key is about
KeyRequest(method, tail) ==
    {Request(method, "/accounts/" \o a \o tail) : a \in AccountIds}

\* C23: account key operations.  rotateAccountKey(id), in every
\* InternalWorlds class of the repository, issues exactly one POST to
\* {baseUrl}/accounts/{id}/key/rotate with the bearer API key and returns
\* the account of the response body; revokeAccountKey(id) issues exactly
\* one DELETE to {baseUrl}/accounts/{id}/key and resolves on an OK
\* response.
C23_AccountKeyOperations ==
    /\ last.op = "rotateAccountKey" =>
          /\ Len(last.requests) = 1
          /\ last.requests[1] \in KeyRequest("POST", "/key/rotate")
          /\ ok(last.response) => last.outcome = returns(last.response)
    /\ last.op = "revokeAccountKey" =>
          /\ Len(last.requests) = 1
          /\ last.requests[1] \in KeyRequest("DELETE", "/key")
          /\ ok(last.response) => last.outcome = resolves

\* C24: SDK not-found handling.  getWorld and getAccount return null
\* exactly when the status is 404, the response body when the response
\* is OK, and throw for every other status; every other operation throws
\* on every non-OK status, 404 included.
C24_NotFoundHandling ==
    last.op \in SdkOps =>
        IF last.op \in {"getWorld", "getAccount"}
        THEN /\ last.outcome.kind = "null" <=> last.response.status = 404
             /\ ok(last.response) => last.outcome = returns(last.response)
             /\ (~ok(last.response) /\ last.response.status # 404) =>
                    last.outcome.kind = "throws"
        ELSE ~ok(last.response) => last.outcome.kind = "throws"

\* the second InternalWorlds class was asked for an account the server
\* does not have and returned null
C24_Witness ==
    /\ last.op = "getAccount"
    /\ last.impl = INTERNAL
    /\ last.response.status = 404
    /\ last.outcome = returnsNull

====
